---- MODULE Spec2Model ----
(***************************************************************************)
(* A model of YSN (ysn.py and ysn_downloader/downloader.py):               *)
(*   - DownloadWorker.run dispatching DownloadJob.run, sequentially or on  *)
(*     a ThreadPoolExecutor;                                               *)
(*   - MainWindow._expand_playlist_urls;                                   *)
(*   - detect_external_downloader, in both versions the repository holds;  *)
(*   - DownloadJob._after_download_process with sha256_of_file;            *)
(*   - MainWindow.start_download and the options each job gives the        *)
(*     backend (_common_opts, _run_yt_dlp, _run_youtube_dl);               *)
(*   - ensure_aria2_on_windows, in both versions;                          *)
(*   - DownloadJob._progress_hook.                                         *)
(***************************************************************************)
EXTENDS Integers, Sequences, FiniteSets, TLC

\* ------------------------------------------------------------------ bounds
MaxJobs == 5
MaxParallel == 6
MaxPreferred == 2
MaxEntries == 2
MaxBytes == 3
ChunkLen == 2
MaxEscape == 3
MaxUrls == 2
MaxChanges == 1
MaxCalls == 2
MaxSize == 3
MaxItems == 2
MaxBelow == 2
MaxRequested == 66
MaxCpu == 17
MaxClicks == 2
MaxGuiJobs == 2
MaxStall == 3

\* ------------------------------------------------------- program constants
MinParallel == 1
DefaultCpu == 2
WorkerFloor == 4
CpuMultiplier == 4
HardCap == 64
DefaultFragments == 16
DefaultChunk == 16 * 1024 * 1024
KiB == 1024

\* os.cpu_count() values; 0 stands for None (both are falsy in `x or 2`).
CpuCounts == {0, 1, 2}

VARIABLES
    \* DownloadWorker
    requested,      \* the `parallel` argument of DownloadWorker.__init__
    parallel,       \* self.parallel
    cpu_count,      \* what os.cpu_count() returns (0: None)
    jobs,           \* self.jobs, a sequence of job identifiers
    pc,             \* position of DownloadWorker.run
    i,              \* index of the `for job in self.jobs` loop
    max_workers,    \* local max_workers of run (0 before it is computed)
    futures,        \* local list futures
    queue,          \* the executor's work queue
    collected,      \* futures whose fut.result() was taken
    workerLines,    \* lines run() itself wrote through log
    finished,       \* number of finished_signal.emit() calls
    \* DownloadJob, one entry per job identifier
    jobLog,         \* job.log: "gui" (MainWindow.log) or "signal" (run's log)
    state,          \* Created, Running, Succeeded, Failed
    jobLines,       \* lines the job wrote through job.log, in order
    results,        \* the values job.run returned, in order
    \* detect_external_downloader(preferred)
    version,        \* which of the repository's two downloader.py is loaded
    preferred,      \* the argument: [isNone |-> ..., names |-> ...]
    is_windows,     \* sys.platform.startswith("win")
    onPath,         \* the file names shutil.which resolves
    appDir,         \* file name -> what is at base_dir/name: absent, file, dir
    lpc,            \* ready, returned
    ext,            \* the value returned
    \* MainWindow._expand_playlist_urls(url, backend)
    url,            \* the reference given
    backend,        \* the backend chosen in the combo box
    ytd_mod,        \* whether yt_dlp was imported
    ytdl_mod,       \* whether youtube_dl was imported
    adapter,        \* what YoutubeDL does on this call
    epc,            \* ready, returned, raised
    urls,           \* the value returned
    guiLines,       \* lines written through MainWindow.log, in order
    \* DownloadJob._after_download_process(info)
    info_dict,      \* the info dict the backend returned
    compute_hash,   \* self.opts.get('compute_hash')
    disk,           \* the paths that exist
    content,        \* the bytes the files hold (after each file's own tag)
    readFails,      \* whether opening or reading the file raises
    apc,            \* ready, returned
    afterLines,     \* lines written through job.log, in order
    \* MainWindow.start_download and the options each job builds
    helper,         \* whether ysn_downloader.downloader was imported
    fragSpin,       \* self.fragSpin.value()
    chunk_text,     \* self.chunkEdit.text().strip().upper()
    job_backend,    \* self.backendCombo.currentText()
    nurls,          \* how many urls the expansion returned
    detected,       \* local ext of start_download
    job_opts,       \* job.opts, one per job
    ydl_opts,       \* the options each job gave YoutubeDL(...)
    opc,            \* ready, running
    changes,        \* how often the files changed since dispatch
    optLines,       \* lines start_download wrote through MainWindow.log
    \* ensure_aria2_on_windows(log_fn)
    has_requests,   \* whether `requests` was imported (else it is None)
    ensCalls,       \* the calls made so far, one record per call
    \* DownloadJob._progress_hook(d)
    event,          \* the dict d the backend passes
    gpc,            \* ready, returned
    progressLines,  \* lines written through job.log, in order
    \* DownloadJob.run with the backend call and the loop over its result
    fetch,          \* what extract_info(url, download=True) does
    fpc,            \* created, ready, loop, returned
    fidx,           \* index of the next item to post-process
    itemLines,      \* lines _after_download_process wrote, per item
    fetchLines,     \* lines run() itself wrote
    outcome,        \* "none", then the value run() returned
    \* start_download: the jobs built from the expansion
    jpc,            \* pending until the for loop over urls has run
    job_urls,       \* the url of each DownloadJob appended to jobs, in order
    \* start_download: the option dicts as objects
    checks,         \* the check boxes read into `opts`
    heap,           \* the dict objects: heap[1] is `opts`, the rest are copies
    job_ref,        \* the object each job's self.opts refers to
    \* MainWindow: the start button and the workers it started
    startBtn,       \* startBtn.isEnabled()
    clicks,         \* clicks on the enabled start button so far
    started,        \* calls of worker.start()
    handled,        \* calls of on_finished
    \* a job whose backend call never returns
    stalled         \* its id, 0 when every backend call returns

dvars == <<requested, parallel, cpu_count, jobs, pc, i, max_workers, futures,
           queue, collected, workerLines, finished, jobLog, state, jobLines,
           results>>

lvars == <<version, preferred, is_windows, onPath, appDir, lpc, ext>>

evars == <<url, backend, ytd_mod, ytdl_mod, adapter, epc, urls, guiLines>>

hvars == <<info_dict, compute_hash, disk, content, readFails, apc, afterLines>>

ovars == <<helper, fragSpin, chunk_text, job_backend, nurls, detected,
           job_opts, ydl_opts, opc, changes, optLines>>

pvars == <<has_requests, ensCalls>>

gvars == <<event, gpc, progressLines>>

fvars == <<fetch, fpc, fidx, itemLines, fetchLines, outcome>>

\* The variables of the components below that the ones above never touch.
jvars == <<jpc, job_urls>>

cvars == <<checks, heap, job_ref>>

bvars == <<startBtn, clicks, started, handled>>

rvars == <<fvars, jvars, cvars, bvars, stalled>>

vars == <<dvars, lvars, evars, hvars, ovars, pvars, gvars, rvars>>

\* What each component leaves alone.
notWorker == <<rvars, gvars, lvars, evars, hvars, ovars, pvars>>
notLocate == <<rvars, gvars, dvars, evars, hvars, ovars, pvars>>
notExpand == <<rvars, gvars, dvars, lvars, hvars, ovars, pvars>>
notAfter == <<rvars, gvars, dvars, lvars, evars, ovars, pvars>>
notOpts == <<fvars, jvars, bvars, stalled, dvars, evars, hvars, pvars, gvars, preferred, lpc, ext>>
notEnsure ==
    <<rvars, dvars, evars, hvars, ovars, gvars, preferred, onPath, lpc, ext>>
notProgress == <<rvars, dvars, lvars, evars, hvars, ovars, pvars>>
notFetch ==
    <<dvars, lvars, evars, hvars, ovars, pvars, gvars, jvars, cvars, bvars,
      stalled>>
notJobs ==
    <<dvars, lvars, evars, hvars, ovars, pvars, gvars, fvars, cvars, bvars,
      stalled>>
notGui ==
    <<lvars, evars, hvars, ovars, pvars, gvars, fvars, jvars, cvars, stalled>>

\* ----------------------------------------------------------------- helpers
Max(a, b) == IF a >= b THEN a ELSE b
Min(a, b) == IF a <= b THEN a ELSE b

JobIds == 1..Len(jobs)
Terminal(j) == state[j] \in {"Succeeded", "Failed"}
Running == {j \in JobIds : state[j] = "Running"}

\* As CoerceParallel keeping the argument as it is.
CoerceParallelIdentity(p) == p

\* DownloadWorker.__init__: self.parallel = max(1, int(parallel))
CoerceParallel(p) == Max(MinParallel, p)

\* (os.cpu_count() or 2)
CpuCount(c) == IF c = 0 THEN DefaultCpu ELSE c

\* As MaxWorkers with the clamp on the cpu count left out.
MaxWorkersNoCpuClamp(p, c) == Min(p, HardCap)

\* As MaxWorkers with a pool of one thread.
MaxWorkersOne(p, c) == 1

\* max_workers = min(self.parallel, max(4, cpu_count * 4), 64)
MaxWorkers(p, c) ==
    Min(Min(p, Max(WorkerFloor, CpuCount(c) * CpuMultiplier)), HardCap)

\* if self.parallel <= 1
Sequential(p) == p <= 1

\* ------------------------------------------------------------ DownloadJob
\* DownloadJob.run up to the try block: the start line is logged.
JobBegin(j) ==
    /\ state' = [state EXCEPT ![j] = "Running"]
    /\ jobLines' = [jobLines EXCEPT ![j] = Append(@, "start")]

\* As JobEnd without the except clause: a raise leaves run with no value.
JobEndUncaught(j, ok) ==
    /\ state' = [state EXCEPT ![j] = IF ok THEN "Succeeded" ELSE "Failed"]
    /\ jobLines' = jobLines
    /\ results' = [results EXCEPT ![j] = IF ok THEN Append(@, ok) ELSE @]

\* DownloadJob.run from the try block on: the backend call returns (ok) or
\* raises (~ok); a raise is caught, logged once, and run returns False.
JobEnd(j, ok) ==
    /\ state' = [state EXCEPT ![j] = IF ok THEN "Succeeded" ELSE "Failed"]
    /\ jobLines' = [jobLines EXCEPT
                      ![j] = IF ok THEN @ ELSE Append(@, "ERROR")]
    /\ results' = [results EXCEPT ![j] = Append(@, ok)]

\* ------------------------------------------- detect_external_downloader
Names == {"aria2c", "axel"}
Suffixes == {"", ".exe"}
Files == [base : Names, suffix : Suffixes]
Kinds == {"absent", "file", "dir"}
Versions == {"root", "src"}

\* The default of `preferred`: ["aria2c", "axel"].
DefaultPreferred == <<"aria2c", "axel">>

\* None, as a value of the shape of the other return values.
NoneExt == [dir |-> "None", file |-> [base |-> "", suffix |-> ""]]

\* exe_name = name + (".exe" if sys.platform.startswith("win") else "")
ExeName(name, win) == [base |-> name, suffix |-> IF win THEN ".exe" ELSE ""]

\* The first loop. Both versions ask shutil.which(exe_name); the root version
\* returns exe_name itself (a bare name), the src version the path found.
RECURSIVE SearchPath(_, _, _, _)
SearchPath(ver, names, win, path) ==
    IF names = <<>> THEN NoneExt
    ELSE LET exe_name == ExeName(Head(names), win) IN
         IF exe_name \in path
         THEN [dir |-> IF ver = "root" THEN "" ELSE "PATH", file |-> exe_name]
         ELSE SearchPath(ver, Tail(names), win, path)

\* The test on local_path: os.path.exists in the root version (true of a
\* directory too), os.path.isfile in the src version.
LocalFound(ver, kind) == IF ver = "root" THEN kind # "absent" ELSE kind = "file"

\* The second loop: local_path = os.path.join(base_dir, exe_name).
RECURSIVE SearchDir(_, _, _, _)
SearchDir(ver, names, win, dir) ==
    IF names = <<>> THEN NoneExt
    ELSE LET exe_name == ExeName(Head(names), win) IN
         IF LocalFound(ver, dir[exe_name])
         THEN [dir |-> "APPDIR", file |-> exe_name]
         ELSE SearchDir(ver, Tail(names), win, dir)

\* As detect_external_downloader with one loop: for each name the search
\* path, then the script's directory, before the next name.
RECURSIVE DetectPerCandidateFrom(_, _, _, _, _)
DetectPerCandidateFrom(ver, names, win, path, dir) ==
    IF names = <<>> THEN NoneExt
    ELSE LET one == <<Head(names)>>
             found == SearchPath(ver, one, win, path)
             local == SearchDir(ver, one, win, dir)
         IN  IF found # NoneExt THEN found
             ELSE IF local # NoneExt THEN local
             ELSE DetectPerCandidateFrom(ver, Tail(names), win, path, dir)

DetectPerCandidate(ver, pref, win, path, dir) ==
    DetectPerCandidateFrom(
        ver, IF pref.isNone THEN DefaultPreferred ELSE pref.names, win, path, dir)

\* detect_external_downloader(preferred): the search path for every name, then
\* the script's directory for every name.
detect_external_downloader(ver, pref, win, path, dir) ==
    LET names == IF pref.isNone THEN DefaultPreferred ELSE pref.names
        found == SearchPath(ver, names, win, path)
    IN  IF found # NoneExt THEN found ELSE SearchDir(ver, names, win, dir)

LocateIdle ==
    /\ version = "root"
    /\ preferred = [isNone |-> TRUE, names |-> <<>>]
    /\ is_windows = FALSE
    /\ onPath = {}
    /\ appDir = [f \in Files |-> "absent"]
    /\ lpc = "idle"
    /\ ext = NoneExt

PreferredArgs ==
    {[isNone |-> TRUE, names |-> <<>>]} \cup
    {[isNone |-> FALSE, names |-> ns] :
        ns \in UNION {[1..n -> Names] : n \in 0..MaxPreferred}}

InitLocate ==
    /\ version \in Versions
    /\ preferred \in PreferredArgs
    /\ is_windows \in BOOLEAN
    /\ onPath \in SUBSET Files
    /\ appDir \in [Files -> Kinds]
    /\ lpc = "ready"
    /\ ext = NoneExt

\* One call of detect_external_downloader(preferred).
Detect ==
    /\ lpc = "ready"
    /\ ext' = detect_external_downloader(version, preferred, is_windows,
                                         onPath, appDir)
    /\ lpc' = "returned"
    /\ UNCHANGED <<version, preferred, is_windows, onPath, appDir>>

\* ------------------------------------------- MainWindow._expand_playlist_urls
Absent == "<absent>"
FieldValues(prefix) == {Absent, "", prefix \o "1", prefix \o "2"}
Entries == [url : FieldValues("U"), id : FieldValues("I")]
Backends == {"yt-dlp", "youtube-dl"}
LoggerLevels == {"debug", "info", "warning", "error"}

\* A log line: its bracketed tag, what it says, and the count it carries.
Line(tag, text, n) == [tag |-> tag, text |-> text, n |-> n]

\* YSNLogger: each level writes "[level] " + msg through the callback.
YSNLogger(levels) ==
    [k \in 1..Len(levels) |-> Line("[" \o levels[k] \o "]", "backend", 0)]

\* `x in entry and entry[x]`: the key is there and its value is not empty.
Truthy(v) == v # Absent /\ v # ""

\* As EntryRef preferring the identifier to the URL.
EntryRefIdFirst(entry) ==
    IF Truthy(entry.id) THEN <<entry.id>>
    ELSE IF Truthy(entry.url) THEN <<entry.url>>
    ELSE <<>>

\* The body of `for entry in info['entries']`: the url, else the id, else
\* nothing.
EntryRef(entry) ==
    IF Truthy(entry.url) THEN <<entry.url>>
    ELSE IF Truthy(entry.id) THEN <<entry.id>>
    ELSE <<>>

RECURSIVE EntryRefs(_)
EntryRefs(entries) ==
    IF entries = <<>> THEN <<>>
    ELSE EntryRef(Head(entries)) \o EntryRefs(Tail(entries))

\* The module chosen for the backend, "none" when it was not imported.
ModuleFor(b, yt, ytdl) ==
    IF b = "yt-dlp" /\ yt THEN "yt_dlp"
    ELSE IF b = "youtube-dl" /\ ytdl THEN "youtube_dl"
    ELSE "none"

\* `isinstance(info, dict) and info.get('entries')`
HasEntries(info) == info.isDict /\ info.hasEntries /\ info.entries # <<>>

\* As ExpandOnRaise without the except clause: the failure leaves the method.
ExpandOnRaiseUncaught(u, lines) ==
    [status |-> "raised", urls |-> <<>>, lines |-> lines]

\* What the except clause does with a failure of the adapter.
ExpandOnRaise(u, lines) ==
    [status |-> "returned", urls |-> <<u>>,
     lines |-> Append(lines, Line("[warn]", "Failed to expand playlist", 0))]

\* As ExpandFallback returning the (empty) list of found entries.
ExpandFallbackEmpty(u, lines) ==
    [status |-> "returned", urls |-> <<>>, lines |-> lines]

\* What is returned when the adapter gave nothing to expand.
ExpandFallback(u, lines) ==
    [status |-> "returned", urls |-> <<u>>, lines |-> lines]

\* _expand_playlist_urls(url, backend): the status it ends with, the list it
\* returns and the lines it wrote through self.log.
ExpandPlaylistUrls(u, b, yt, ytdl, a) ==
    LET first == <<Line("[info]", "Expanding URL", 0)>>
        called == first \o YSNLogger(a.logger)
        found == EntryRefs(a.info.entries)
    IN  IF ModuleFor(b, yt, ytdl) = "none"
        THEN [status |-> "returned", urls |-> <<u>>,
              lines |-> Append(first,
                               Line("[warn]", "Backend module not available", 0))]
        ELSE IF a.raises THEN ExpandOnRaise(u, called)
        ELSE IF HasEntries(a.info) /\ found # <<>>
        THEN [status |-> "returned", urls |-> found,
              lines |-> Append(called,
                               Line("[info]", "Found entries", Len(found)))]
        ELSE ExpandFallback(u, called)

NoInfo == [isDict |-> FALSE, hasEntries |-> FALSE, entries |-> <<>>]

\* What extract_info(url, download=False) may return: something that is no
\* dict, a dict without 'entries', a dict with a list of entries.
Infos ==
    {NoInfo, [isDict |-> TRUE, hasEntries |-> FALSE, entries |-> <<>>]} \cup
    {[isDict |-> TRUE, hasEntries |-> TRUE, entries |-> es] :
        es \in UNION {[1..n -> Entries] : n \in 0..MaxEntries}}

\* The calls the backend makes on the logger it was given: none, or one of
\* some level.
LoggerCalls == {<<>>} \cup {<<level>> : level \in LoggerLevels}

\* What the adapter does on one call: the logger calls it makes, then it
\* raises or returns info.
Adapters ==
    {[raises |-> TRUE, logger |-> lg, info |-> NoInfo] : lg \in LoggerCalls}
    \cup
    {[raises |-> FALSE, logger |-> lg, info |-> inf] :
        lg \in LoggerCalls, inf \in Infos}

ExpandIdle ==
    /\ url = "R1"
    /\ backend = "yt-dlp"
    /\ ytd_mod = FALSE
    /\ ytdl_mod = FALSE
    /\ adapter = [raises |-> FALSE, logger |-> <<>>, info |-> NoInfo]
    /\ epc = "idle"
    /\ urls = <<>>
    /\ guiLines = <<>>

InitExpand ==
    /\ url \in {"R1", "R2"}
    /\ backend \in Backends
    /\ ytd_mod \in BOOLEAN
    /\ ytdl_mod \in BOOLEAN
    /\ adapter \in Adapters
    /\ epc = "ready"
    /\ urls = <<>>
    /\ guiLines = <<>>

\* One call of self._expand_playlist_urls(url, backend).
Expand ==
    /\ epc = "ready"
    /\ LET r == ExpandPlaylistUrls(url, backend, ytd_mod, ytdl_mod, adapter) IN
        /\ epc' = r.status
        /\ urls' = IF r.status = "returned" THEN r.urls ELSE <<>>
        /\ guiLines' = guiLines \o r.lines
    /\ UNCHANGED <<url, backend, ytd_mod, ytdl_mod, adapter>>

\* --------------------------------- DownloadJob._after_download_process
\* sha256_of_file reads `chunk` bytes at a time (8192 in the code); the model
\* reads ChunkLen bytes at a time from files of at most MaxBytes + 1 bytes.
Bytes == {0, 1}

\* hashlib: the digest is a function of the bytes fed to update(), in order.
Digest(fed) == <<"sha256", fed>>

Take(seq, n) == SubSeq(seq, 1, Min(n, Len(seq)))
Drop(seq, n) == SubSeq(seq, Min(n, Len(seq)) + 1, Len(seq))

\* The while loop of sha256_of_file: b = f.read(chunk); an empty b ends it,
\* anything else goes to h.update(b).
RECURSIVE ReadLoop(_, _, _)
ReadLoop(rest, chunk, fed) ==
    LET b == Take(rest, chunk) IN
    IF b = <<>> THEN fed
    ELSE ReadLoop(Drop(rest, chunk), chunk, fed \o b)

\* As sha256_of_file, hashing the first chunk only.
Sha256FirstChunk(bytes, chunk) == Digest(Take(bytes, chunk))

\* sha256_of_file(path, chunk) on a file holding `bytes`.
sha256_of_file(bytes, chunk) == Digest(ReadLoop(bytes, chunk, <<>>))

OutDir == "/out/"
NoList == "<no requested_downloads>"
StructuredPaths == {"/out/a.mkv", "/out/b.mkv"}
Titles == {Absent, "T"}
VideoIds == {Absent, "V"}
Exts == {Absent, "webm"}

\* self.outdir / f"{title}-{vid}.{ext}"
GuessPath(title, vid, ex) == OutDir \o title \o "-" \o vid \o "." \o ex

AllPaths ==
    StructuredPaths \cup {GuessPath("T", "V", "webm"), GuessPath("T", "V", "mp4")}

\* The info dicts: empty, or with '_filename', requested_downloads (missing
\* or empty: NoList; else the 'filepath' of its first element), title, id, ext.
InfoDicts ==
    [empty : BOOLEAN,
     filename : {Absent, "", "/out/a.mkv"},
     requested : {NoList, Absent, "/out/b.mkv"},
     title : Titles, id : VideoIds, ext : Exts]

\* The bytes of the file at a path: every file starts with a byte of its own.
PathTag(path) ==
    CASE path = "/out/a.mkv" -> 2
      [] path = "/out/b.mkv" -> 3
      [] path = GuessPath("T", "V", "webm") -> 4
      [] OTHER -> 5

FileBytes(path, bytes) == <<PathTag(path)>> \o bytes

\* A line of _after_download_process: its tag, what it says, the path it
\* names and the digest it carries (<<>>: none).
AfterLine(tag, text, path, digest) ==
    [tag |-> tag, text |-> text, path |-> path, digest |-> digest]

\* filename = info.get('_filename') or (requested_downloads[0].get('filepath')
\* if info.get('requested_downloads') else None)
StructuredFilename(inf) ==
    IF Truthy(inf.filename) THEN inf.filename
    ELSE IF inf.requested # NoList /\ Truthy(inf.requested) THEN inf.requested
    ELSE Absent

\* The guess made when there is no filename: outdir/title-id.ext, ext or 'mp4',
\* taken when title and id are there and the guessed path exists.
GuessedFilename(inf, paths) ==
    LET ex == IF Truthy(inf.ext) THEN inf.ext ELSE "mp4"
        guessed == IF Truthy(inf.title) /\ Truthy(inf.id)
                   THEN GuessPath(inf.title, inf.id, ex) ELSE Absent
    IN  IF guessed # Absent /\ guessed \in paths THEN guessed ELSE Absent

ResolveFilename(inf, paths) ==
    IF StructuredFilename(inf) # Absent THEN StructuredFilename(inf)
    ELSE GuessedFilename(inf, paths)

\* The try block around sha256_of_file: the digest line, or the failure line.
HashLines(path, bytes, fails) ==
    IF fails
    THEN <<AfterLine("[hash]", "failed", path, <<>>)>>
    ELSE <<AfterLine("[hash]", "SHA256", path,
                     sha256_of_file(FileBytes(path, bytes), ChunkLen))>>

\* As AfterDownloadProcess without the warning of the else branch.
AfterDownloadProcessSilent(inf, hash, paths, bytes, fails) ==
    LET filename == ResolveFilename(inf, paths) IN
    IF ~inf.empty /\ filename # Absent /\ filename \in paths /\ hash
    THEN HashLines(filename, bytes, fails)
    ELSE <<>>

\* _after_download_process(info): the lines it writes.
AfterDownloadProcess(inf, hash, paths, bytes, fails) ==
    LET filename == ResolveFilename(inf, paths) IN
    IF inf.empty THEN <<>>
    ELSE IF filename # Absent /\ filename \in paths
    THEN IF hash THEN HashLines(filename, bytes, fails) ELSE <<>>
    ELSE <<AfterLine("[warn]", "could not determine downloaded filename",
                     Absent, <<>>)>>

AfterIdle ==
    /\ info_dict = [empty |-> TRUE, filename |-> Absent, requested |-> NoList,
               title |-> Absent, id |-> Absent, ext |-> Absent]
    /\ compute_hash = FALSE
    /\ disk = {}
    /\ content = <<>>
    /\ readFails = FALSE
    /\ apc = "idle"
    /\ afterLines = <<>>

InitAfter ==
    /\ info_dict \in InfoDicts
    /\ compute_hash \in BOOLEAN
    /\ disk \in SUBSET AllPaths
    /\ content \in UNION {[1..n -> Bytes] : n \in 0..MaxBytes}
    /\ readFails \in BOOLEAN
    /\ apc = "ready"
    /\ afterLines = <<>>

\* One call of self._after_download_process(info).
AfterDownload ==
    /\ apc = "ready"
    /\ afterLines' = afterLines \o
           AfterDownloadProcess(info_dict, compute_hash, disk, content,
                                readFails)
    /\ apc' = "returned"
    /\ UNCHANGED <<info_dict, compute_hash, disk, content, readFails>>

\* ------------------------------ start_download and the backend options
\* The text of an accelerator value, as tokens: a bare name has no directory.
DirTokens(dir, win) ==
    CASE dir = "PATH" -> IF win THEN <<"C:/Tools/">> ELSE <<"/usr/bin/">>
      [] dir = "APPDIR" -> IF win THEN <<"C:/App/">> ELSE <<"/app/">>
      [] OTHER -> <<>>

NameTokens(base) == IF base = "aria2c" THEN <<"aria2", "c">> ELSE <<base>>

ExtString(e, win) ==
    DirTokens(e.dir, win) \o NameTokens(e.file.base) \o <<e.file.suffix>>

\* str.lower()
LowerToken(t) ==
    CASE t = "C:/Tools/" -> "c:/tools/"
      [] t = "C:/App/" -> "c:/app/"
      [] OTHER -> t

Lower(str) == [k \in 1..Len(str) |-> LowerToken(str[k])]

\* str.startswith(prefix)
StartsWith(str, prefix) ==
    Len(str) >= Len(prefix) /\ SubSeq(str, 1, Len(prefix)) = prefix

Aria2Args ==
    <<"--max-connection-per-server=16", "--split=16", "--min-split-size=1M",
      "--file-allocation=none">>

AxelArgs == <<"-n", "16">>

\* The if/elif on ext.lower().startswith(...): the value of
\* opts['external_downloader_args'], <<>> when the key is not set.
ExternalDownloaderArgs(e, win) ==
    IF StartsWith(Lower(ExtString(e, win)), <<"aria2">>) THEN Aria2Args
    ELSE IF StartsWith(Lower(ExtString(e, win)), <<"axel">>) THEN AxelArgs
    ELSE <<>>

\* shutil.which(name): the path found (Windows tries PATHEXT), or None.
Which(name, win, path) ==
    IF ExeName(name, win) \in path
    THEN [dir |-> "PATH", file |-> ExeName(name, win)]
    ELSE NoneExt

\* shutil.which('aria2c') or shutil.which('axel')
WhichFallback(win, path) ==
    IF Which("aria2c", win, path) # NoneExt THEN Which("aria2c", win, path)
    ELSE Which("axel", win, path)

\* start_download's `ext`: the helper when it was imported, else the fallback.
\* (Neither version of the helper raises, so the except clause is not taken.)
OrchestratorExt(hlp, ver, win, path, dir) ==
    IF hlp
    THEN detect_external_downloader(ver, [isNone |-> TRUE, names |-> <<>>],
                                    win, path, dir)
    ELSE WhichFallback(win, path)

\* _run_yt_dlp's `ext`: the helper when it was imported, else None.
JobExt(hlp, ver, win, path, dir) ==
    IF hlp
    THEN detect_external_downloader(ver, [isNone |-> TRUE, names |-> <<>>],
                                    win, path, dir)
    ELSE NoneExt

\* The chunk size texts: a number (NotANumber: int() raises) and a suffix.
NotANumber == -1
ChunkTexts ==
    {[num |-> 8, suffix |-> "M"], [num |-> 512, suffix |-> "K"],
     [num |-> 4096, suffix |-> ""], [num |-> NotANumber, suffix |-> "M"]}

FragValues == {1, 16}

\* The parse of chunk_text in start_download: [ok, bytes].
ParseChunk(text) ==
    IF text.num = NotANumber THEN [ok |-> FALSE, bytes |-> DefaultChunk]
    ELSE IF text.suffix = "M"
    THEN [ok |-> TRUE, bytes |-> text.num * KiB * KiB]
    ELSE IF text.suffix = "K" THEN [ok |-> TRUE, bytes |-> text.num * KiB]
    ELSE [ok |-> TRUE, bytes |-> text.num]

\* job_opts.update({...}): the performance settings of one job.
JobOpts(fragments, chunk_bytes) ==
    [concurrent_fragments |-> fragments, http_chunk_size |-> chunk_bytes]

\* The options not yet built.
NoOpts ==
    [built |-> FALSE, external_downloader |-> NoneExt,
     external_downloader_args |-> <<>>, concurrent_fragments |-> 0,
     http_chunk_size |-> 0]

\* _common_opts(extra_opts): perf holds the two defaults, updated by
\* extra_opts, which both callers leave empty; self.opts is not read for them.
CommonOpts(jopts, extra_opts) ==
    [built |-> TRUE, external_downloader |-> NoneExt,
     external_downloader_args |-> <<>>,
     concurrent_fragments |->
         IF "concurrent_fragments" \in DOMAIN extra_opts
         THEN extra_opts.concurrent_fragments ELSE DefaultFragments,
     http_chunk_size |->
         IF "http_chunk_size" \in DOMAIN extra_opts
         THEN extra_opts.http_chunk_size ELSE DefaultChunk]

\* extra_opts = {} of _run_yt_dlp; _run_youtube_dl passes none.
EmptyOpts == [k \in {} |-> 0]

\* _run_yt_dlp up to YoutubeDL(opts).
RunYtDlpOpts(jopts, e, win) ==
    IF e # NoneExt
    THEN [CommonOpts(jopts, EmptyOpts) EXCEPT
             !.external_downloader = e,
             !.external_downloader_args = ExternalDownloaderArgs(e, win)]
    ELSE CommonOpts(jopts, EmptyOpts)

\* _run_youtube_dl up to YoutubeDL(opts).
RunYoutubeDlOpts(jopts) == CommonOpts(jopts, EmptyOpts)

\* The check boxes start_download reads: chk_subs, chk_embed_subs,
\* chk_thumbnail, chk_hash.
Checks ==
    [subs : BOOLEAN, embed_subs : {FALSE}, thumbnail : {TRUE}, hash : BOOLEAN]

\* The dict literal `opts` of start_download.
BaseOpts(c) ==
    [download_subs |-> c.subs, embed_subtitles |-> c.embed_subs,
     write_thumbnail |-> c.thumbnail, embed_thumbnail |-> c.thumbnail,
     compute_hash |-> c.hash, allow_playlist |-> TRUE]

\* dict.update: the keys of u are set in d, the others stay.
DictUpdate(d, u) ==
    [k \in DOMAIN d \cup DOMAIN u |-> IF k \in DOMAIN u THEN u[k] ELSE d[k]]

\* The argument of job_opts.update; opts is the base dict.
JobUpdate(opts, fragments, chunk_bytes) ==
    DictUpdate(JobOpts(fragments, chunk_bytes),
               [compute_hash |-> opts.compute_hash])

\* As CreateJobOpts with `job_opts = opts` in place of the copy.
CreateJobOptsAliased(h, fragments, chunk_bytes) ==
    [heap |-> [h EXCEPT ![1] =
                  DictUpdate(@, JobUpdate(h[1], fragments, chunk_bytes))],
     ref |-> 1]

\* job_opts = opts.copy(); job_opts.update({...}): a new object with the
\* items of opts, then updated; the job refers to the new object.
CreateJobOpts(h, fragments, chunk_bytes) ==
    LET copied == Append(h, h[1])
        ref == Len(copied)
    IN  [heap |-> [copied EXCEPT ![ref] =
                      DictUpdate(@, JobUpdate(copied[1], fragments,
                                              chunk_bytes))],
         ref |-> ref]

\* The for loop over urls: n jobs, each with its option object.
RECURSIVE CreateAll(_, _, _, _)
CreateAll(h, n, fragments, chunk_bytes) ==
    IF n = 0 THEN [heap |-> h, refs |-> <<>>]
    ELSE LET before == CreateAll(h, n - 1, fragments, chunk_bytes)
             made == CreateJobOpts(before.heap, fragments, chunk_bytes)
         IN  [heap |-> made.heap, refs |-> Append(before.refs, made.ref)]

\* The performance settings in the dict d.
PerfOf(d) ==
    [concurrent_fragments |-> d.concurrent_fragments,
     http_chunk_size |-> d.http_chunk_size]

CaptureIdle ==
    /\ checks = [subs |-> FALSE, embed_subs |-> FALSE, thumbnail |-> FALSE,
                 hash |-> FALSE]
    /\ heap = <<>>
    /\ job_ref = <<>>

OptsIdle ==
    /\ helper = FALSE
    /\ fragSpin = 0
    /\ chunk_text = [num |-> 0, suffix |-> ""]
    /\ job_backend = ""
    /\ nurls = 0
    /\ detected = NoneExt
    /\ job_opts = <<>>
    /\ ydl_opts = <<>>
    /\ opc = "idle"
    /\ changes = 0
    /\ optLines = <<>>

\* The files of the platform: shutil.which and the helper only ask for names
\* with the platform's suffix.
PlatformFiles(win) == {f \in Files : f.suffix = IF win THEN ".exe" ELSE ""}

InitOpts ==
    /\ helper \in BOOLEAN
    /\ version \in Versions
    /\ preferred = [isNone |-> TRUE, names |-> <<>>]
    /\ is_windows \in BOOLEAN
    /\ onPath \in SUBSET PlatformFiles(is_windows)
    /\ appDir \in [Files -> {"absent", "file"}]
    /\ \A f \in Files \ PlatformFiles(is_windows) : appDir[f] = "absent"
    /\ lpc = "idle"
    /\ ext = NoneExt
    /\ fragSpin \in FragValues
    /\ chunk_text \in ChunkTexts
    /\ job_backend \in Backends
    /\ nurls \in 1..MaxUrls
    /\ detected = NoneExt
    /\ job_opts = <<>>
    /\ ydl_opts = <<>>
    /\ opc = "ready"
    /\ changes = 0
    /\ optLines = <<>>
    /\ checks \in Checks
    /\ heap = <<>>
    /\ job_ref = <<>>

\* start_download from the chunk size parse to the creation of the jobs.
StartDownload ==
    /\ opc = "ready"
    /\ LET chunk == ParseChunk(chunk_text)
           e == OrchestratorExt(helper, version, is_windows, onPath, appDir)
           made == CreateAll(<<BaseOpts(checks)>>, nurls, fragSpin, chunk.bytes)
       IN  /\ detected' = e
           /\ optLines' = optLines
                  \o (IF chunk.ok THEN <<>> ELSE <<"[warn] invalid chunk size">>)
                  \o (IF e # NoneExt
                      THEN <<"[info] External downloader detected">>
                      ELSE <<"[info] No external downloader detected">>)
           /\ heap' = made.heap
           /\ job_ref' = made.refs
           /\ job_opts' = [j \in 1..nurls |-> PerfOf(made.heap[made.refs[j]])]
    /\ ydl_opts' = [j \in 1..nurls |-> NoOpts]
    /\ opc' = "running"
    /\ UNCHANGED <<helper, fragSpin, chunk_text, job_backend, nurls, changes,
                   checks>>
    /\ UNCHANGED <<version, is_windows, onPath, appDir>>

\* One job reaches YoutubeDL(opts) in _run_yt_dlp or _run_youtube_dl.
JobBuildOpts(j) ==
    /\ opc = "running"
    /\ ~ydl_opts[j].built
    /\ ydl_opts' = [ydl_opts EXCEPT ![j] =
           IF job_backend = "yt-dlp"
           THEN RunYtDlpOpts(job_opts[j],
                             JobExt(helper, version, is_windows, onPath, appDir),
                             is_windows)
           ELSE RunYoutubeDlOpts(job_opts[j])]
    /\ UNCHANGED <<helper, fragSpin, chunk_text, job_backend, nurls, detected,
                   job_opts, opc, changes, optLines>>
    /\ UNCHANGED <<version, is_windows, onPath, appDir>>
    /\ UNCHANGED cvars

\* While the batch runs an accelerator is installed or removed, on the search
\* path or next to the application.
FilesChange ==
    /\ opc = "running"
    /\ changes < MaxChanges
    /\ changes' = changes + 1
    /\ \E f \in PlatformFiles(is_windows) :
         \/ /\ onPath' = IF f \in onPath THEN onPath \ {f} ELSE onPath \cup {f}
            /\ appDir' = appDir
         \/ /\ appDir' = [appDir EXCEPT
                   ![f] = IF @ = "absent" THEN "file" ELSE "absent"]
            /\ onPath' = onPath
    /\ UNCHANGED <<helper, fragSpin, chunk_text, job_backend, nurls, detected,
                   job_opts, ydl_opts, opc, optLines>>
    /\ UNCHANGED <<version, is_windows>>
    /\ UNCHANGED cvars

\* ------------------------------------------------ ensure_aria2_on_windows
\* exe_name = "aria2c.exe"; final_path = os.path.join(base_dir, exe_name)
Aria2Exe == [base |-> "aria2c", suffix |-> ".exe"]

\* The steps of the download that may fail on a call ("none": none does).
Steps ==
    {"none", "query", "asset", "download", "zip", "member", "extract", "move"}

\* What a call did and left: the value returned ("None" or "final_path"),
\* whether it raised, the steps it performed, the scratch files and
\* directories it created that are still there, and whether final_path now
\* holds the binary it installed.
Outcome(value, effects, scratch, installed) ==
    [value |-> value, raised |-> FALSE, effects |-> effects,
     scratch |-> scratch, installed |-> installed]

NoOp(value) == Outcome(value, {}, {}, FALSE)

\* src/ysn_downloader/downloader.py. The zip is made by mkstemp and removed
\* on the member-not-found path and on success only; the member is extracted
\* into base_dir, where the directories of a nested member stay.
RootEnsure(win, req, kind, failAt, nested) ==
    IF ~win THEN NoOp("None")
    ELSE IF ~req THEN NoOp("None")
    ELSE IF kind # "absent" THEN NoOp("final_path")
    ELSE CASE failAt \in {"query", "asset"} ->
                Outcome("None", {"query"}, {}, FALSE)
           [] failAt \in {"download", "zip"} ->
                Outcome("None", {"query", "download"}, {"tmp_zip"}, FALSE)
           [] failAt = "member" ->
                Outcome("None", {"query", "download"}, {}, FALSE)
           [] failAt = "extract" ->
                Outcome("None", {"query", "download", "extract"},
                        {"tmp_zip"}, FALSE)
           [] failAt = "move" ->
                Outcome("None", {"query", "download", "extract"},
                        {"tmp_zip"} \cup
                            (IF nested THEN {"extracted_dir"} ELSE {}),
                        ~nested)
           [] OTHER ->
                Outcome("final_path", {"query", "download", "extract", "move"},
                        IF nested THEN {"extracted_dir"} ELSE {}, TRUE)

\* src/src/ysn_downloader/downloader.py. The zip is removed in a finally
\* clause; the member is extracted into a mkdtemp directory that is removed
\* after the move only.
SrcEnsure(win, req, kind, failAt, nested) ==
    IF ~win THEN NoOp("None")
    ELSE IF kind = "file" THEN NoOp("final_path")
    ELSE IF ~req THEN NoOp("None")
    ELSE CASE failAt \in {"query", "asset"} ->
                Outcome("None", {"query"}, {}, FALSE)
           [] failAt \in {"download", "zip", "member"} ->
                Outcome("None", {"query", "download"}, {}, FALSE)
           [] failAt \in {"extract", "move"} ->
                Outcome("None", {"query", "download", "extract"},
                        {"temp_extract_dir"}, FALSE)
           [] OTHER ->
                Outcome("final_path", {"query", "download", "extract", "move"},
                        {}, TRUE)

ensure_aria2_on_windows(ver, win, req, kind, failAt, nested) ==
    IF ver = "root" THEN RootEnsure(win, req, kind, failAt, nested)
    ELSE SrcEnsure(win, req, kind, failAt, nested)

EnsureIdle ==
    /\ has_requests = FALSE
    /\ ensCalls = <<>>

InitEnsure ==
    /\ version \in Versions
    /\ is_windows \in BOOLEAN
    /\ has_requests \in BOOLEAN
    /\ \E kind \in {"absent", "file"} :
         appDir = [f \in Files |-> IF f = Aria2Exe THEN kind ELSE "absent"]
    /\ preferred = [isNone |-> TRUE, names |-> <<>>]
    /\ onPath = {}
    /\ lpc = "idle"
    /\ ext = NoneExt
    /\ ensCalls = <<>>

\* One call of ensure_aria2_on_windows: the record keeps what final_path held
\* before the call, what the environment did, and the outcome.
EnsureCall ==
    /\ Len(ensCalls) < MaxCalls
    /\ \E failAt \in Steps, nested \in BOOLEAN :
         LET out == ensure_aria2_on_windows(version, is_windows, has_requests,
                                            appDir[Aria2Exe], failAt, nested)
         IN  /\ ensCalls' = Append(ensCalls,
                    [before |-> appDir[Aria2Exe], failAt |-> failAt,
                     nested |-> nested, out |-> out])
             /\ appDir' = IF out.installed
                          THEN [appDir EXCEPT ![Aria2Exe] = "file"]
                          ELSE appDir
    /\ UNCHANGED <<has_requests, version, is_windows>>

\* ------------------------------------------ DownloadJob._progress_hook
\* None as a byte count.
NoneBytes == -1
ByteCounts == {NoneBytes} \cup 0..MaxSize
Statuses == {"downloading", "finished", "error"}

Events ==
    [status : Statuses, downloaded_bytes : ByteCounts,
     total_bytes : ByteCounts, total_bytes_estimate : ByteCounts]

\* `x or y` on byte counts: None and 0 are falsy.
OrElse(x, y) == IF x = NoneBytes \/ x = 0 THEN y ELSE x

\* percent = downloaded / total * 100 when total is truthy, else None; kept
\* as the fraction num/den (den = 0: None).
Percent(downloaded, total) ==
    IF total # 0 THEN [num |-> downloaded * 100, den |-> total]
    ELSE [num |-> 0, den |-> 0]

\* `if percent:` is false of None and of 0.0.
PercentTruthy(percent) == percent.den # 0 /\ percent.num # 0

\* f"{percent:.1f}": the value in tenths, rounded to the nearest.
Tenths(percent) == (2 * 10 * percent.num + percent.den) \div (2 * percent.den)

ProgressLine(kind, tenths, bytes) ==
    [tag |-> "[progress]", kind |-> kind, tenths |-> tenths, bytes |-> bytes]

\* _progress_hook(d): the lines it writes.
ProgressHookLines(d) ==
    LET downloaded == OrElse(d.downloaded_bytes, 0)
        total == OrElse(d.total_bytes, OrElse(d.total_bytes_estimate, 0))
        percent == Percent(downloaded, total)
    IN  IF d.status = "downloading"
        THEN IF PercentTruthy(percent)
             THEN <<ProgressLine("percent", Tenths(percent), 0)>>
             ELSE <<ProgressLine("bytes", 0, downloaded)>>
        ELSE IF d.status = "finished"
        THEN <<[tag |-> "[done]", kind |-> "finished", tenths |-> 0,
                bytes |-> 0]>>
        ELSE <<>>

ProgressIdle ==
    /\ event = [status |-> "", downloaded_bytes |-> NoneBytes,
                total_bytes |-> NoneBytes, total_bytes_estimate |-> NoneBytes]
    /\ gpc = "idle"
    /\ progressLines = <<>>

InitProgress ==
    /\ event \in Events
    /\ gpc = "ready"
    /\ progressLines = <<>>

\* One call of self._progress_hook(d).
ProgressHook ==
    /\ gpc = "ready"
    /\ progressLines' = progressLines \o ProgressHookLines(event)
    /\ gpc' = "returned"
    /\ UNCHANGED event

\* start_download, lines 527-537: one DownloadJob per element of urls.
JobsIdle == jpc = "idle" /\ job_urls = <<>>

InitJobs == jpc = "pending" /\ job_urls = <<>>

\* As JobsFor building one job, for the first reference only.
JobsForFirst(us) == IF us = <<>> THEN <<>> ELSE <<us[1]>>

\* `for u in urls: ... jobs.append(DownloadJob(url=u, ...))`: the urls of the
\* jobs, in the order of the appends.
JobsFor(us) == [k \in 1..Len(us) |-> us[k]]

CreateJobs ==
    /\ epc = "returned"
    /\ jpc = "pending"
    /\ job_urls' = job_urls \o JobsFor(urls)
    /\ jpc' = "created"

\* ------------------------- DownloadJob.run: the fetch and what follows it
\* The items a fetch may give: an info dict and whether reading its file
\* raises when the digest is computed.
ItemInfos ==
    {inf \in InfoDicts :
        /\ inf.filename # ""
        /\ inf.requested = NoList
        /\ inf.id = "V"
        /\ inf.ext = Absent}

Items == [info : ItemInfos, fails : BOOLEAN]

\* What extract_info(url, download=True) does: it raises, or returns
\* something that is no dict, or a dict without entries (items holds that
\* dict), or a dict whose 'entries' is the non-empty list items.
Fetches ==
    {[raises |-> TRUE, isDict |-> FALSE, hasEntries |-> FALSE, items |-> <<>>],
     [raises |-> FALSE, isDict |-> FALSE, hasEntries |-> FALSE, items |-> <<>>]}
    \cup
    {[raises |-> FALSE, isDict |-> TRUE, hasEntries |-> FALSE,
      items |-> <<it>>] : it \in Items}
    \cup
    {[raises |-> FALSE, isDict |-> TRUE, hasEntries |-> TRUE, items |-> its] :
        its \in UNION {[1..n -> Items] : n \in 1..MaxItems}}

FetchPaths == {"/out/a.mkv", GuessPath("T", "V", "mp4")}

FetchIdle ==
    /\ fetch = [raises |-> FALSE, isDict |-> FALSE, hasEntries |-> FALSE,
                items |-> <<>>]
    /\ fpc = "idle"
    /\ fidx = 0
    /\ itemLines = <<>>
    /\ fetchLines = <<>>
    /\ outcome = "none"

InitFetch ==
    /\ fetch \in Fetches
    /\ fpc = "created"
    /\ fidx = 0
    /\ itemLines = [k \in 1..Len(fetch.items) |-> <<>>]
    /\ fetchLines = <<>>
    /\ outcome = "none"
    /\ info_dict = [empty |-> TRUE, filename |-> Absent, requested |-> NoList,
                    title |-> Absent, id |-> Absent, ext |-> Absent]
    /\ compute_hash \in BOOLEAN
    /\ disk \in SUBSET FetchPaths
    /\ content \in {<<>>, <<0, 1, 1>>}
    /\ readFails = FALSE
    /\ apc = "idle"
    /\ afterLines = <<>>

\* run(): the start line, before the try block.
RunStart ==
    /\ fpc = "created"
    /\ fetchLines' = Append(fetchLines, "start")
    /\ fpc' = "ready"
    /\ UNCHANGED <<fetch, fidx, itemLines, outcome>>

\* The backend method up to the end of ydl.extract_info: a raise goes to the
\* except clause of run(), which logs it and returns False.
FetchReturn ==
    /\ fpc = "ready"
    /\ IF fetch.raises
       THEN /\ fetchLines' = Append(fetchLines, "ERROR")
            /\ outcome' = "False"
            /\ fpc' = "returned"
            /\ fidx' = fidx
       ELSE /\ fpc' = "loop"
            /\ fidx' = 1
            /\ UNCHANGED <<fetchLines, outcome>>
    /\ UNCHANGED <<fetch, itemLines>>

\* The item's digest cannot be computed: it resolves to a file on disk, the
\* option is set and reading the file raises.
DigestFails(it, hash, paths) ==
    /\ ~it.info.empty
    /\ hash
    /\ it.fails
    /\ ResolveFilename(it.info, paths) # Absent
    /\ ResolveFilename(it.info, paths) \in paths

\* As ProcessItem with a failing digest leaving the loop and failing the job.
ProcessItemAbort ==
    /\ fpc = "loop"
    /\ fidx <= Len(fetch.items)
    /\ IF DigestFails(fetch.items[fidx], compute_hash, disk)
       THEN /\ fpc' = "returned"
            /\ outcome' = "False"
            /\ UNCHANGED <<fidx, itemLines>>
       ELSE /\ itemLines' = [itemLines EXCEPT ![fidx] = @ \o
                   AfterDownloadProcess(fetch.items[fidx].info, compute_hash,
                                        disk, content, fetch.items[fidx].fails)]
            /\ fidx' = fidx + 1
            /\ UNCHANGED <<fpc, outcome>>
    /\ UNCHANGED <<fetch, fetchLines>>

\* self._after_download_process(e) for the next entry, or for info itself.
ProcessItem ==
    /\ fpc = "loop"
    /\ fidx <= Len(fetch.items)
    /\ itemLines' = [itemLines EXCEPT ![fidx] = @ \o
           AfterDownloadProcess(fetch.items[fidx].info, compute_hash, disk,
                                content, fetch.items[fidx].fails)]
    /\ fidx' = fidx + 1
    /\ UNCHANGED <<fetch, fpc, fetchLines, outcome>>

\* The loop is over; the backend method returns and run() returns True.
RunReturn ==
    /\ fpc = "loop"
    /\ fidx > Len(fetch.items)
    /\ outcome' = "True"
    /\ fpc' = "returned"
    /\ UNCHANGED <<fetch, fidx, itemLines, fetchLines>>

\* The components added after the first ones, not in use.
BatchIdle == startBtn = TRUE /\ clicks = 0 /\ started = 0 /\ handled = 0

StallIdle == stalled = 0

RestIdle == FetchIdle /\ JobsIdle /\ CaptureIdle /\ BatchIdle /\ StallIdle

\* The worker before DownloadWorker is constructed.
WorkerIdle ==
    /\ requested = 0
    /\ parallel = 0
    /\ cpu_count = 0
    /\ jobs = <<>>
    /\ pc = "idle"
    /\ i = 0
    /\ max_workers = 0
    /\ futures = <<>>
    /\ queue = <<>>
    /\ collected = {}
    /\ workerLines = <<>>
    /\ finished = 0
    /\ jobLog = <<>>
    /\ state = <<>>
    /\ jobLines = <<>>
    /\ results = <<>>

\* --------------------------------------------------------- DownloadWorker
Init ==
    /\ requested \in 0..MaxParallel
    /\ parallel = CoerceParallel(requested)
    /\ cpu_count \in CpuCounts
    /\ \E n \in 0..MaxJobs : jobs = [k \in 1..n |-> k]
    /\ pc = "begin"
    /\ i = 0
    /\ max_workers = 0
    /\ futures = <<>>
    /\ queue = <<>>
    /\ collected = {}
    /\ workerLines = <<>>
    /\ finished = 0
    /\ jobLog = [j \in JobIds |-> "gui"]
    /\ state = [j \in JobIds |-> "Created"]
    /\ jobLines = [j \in JobIds |-> <<>>]
    /\ results = [j \in JobIds |-> <<>>]
    /\ LocateIdle
    /\ ExpandIdle
    /\ AfterIdle
    /\ OptsIdle
    /\ EnsureIdle
    /\ ProgressIdle
    /\ RestIdle

\* run(): the branch on self.parallel; in the concurrent branch max_workers is
\* computed and logged and the executor is created.
RunBegin ==
    /\ pc = "begin"
    /\ i' = 1
    /\ IF Sequential(parallel)
       THEN /\ pc' = "seq"
            /\ UNCHANGED <<max_workers, workerLines>>
       ELSE /\ pc' = "submit"
            /\ max_workers' = MaxWorkers(parallel, cpu_count)
            /\ workerLines' = Append(workerLines, "info_workers")
    /\ UNCHANGED <<requested, parallel, cpu_count, jobs, futures, queue,
                   collected, finished, jobLog, state, jobLines, results>>
    /\ UNCHANGED notWorker

\* As SeqStartJob with job.run started on a thread of its own: the loop does
\* not wait for it.
SeqStartJobDetached ==
    /\ pc = "seq"
    /\ i <= Len(jobs)
    /\ jobLog' = [jobLog EXCEPT ![jobs[i]] = "signal"]
    /\ JobBegin(jobs[i])
    /\ i' = i + 1
    /\ UNCHANGED <<requested, parallel, cpu_count, jobs, pc, max_workers,
                   futures, queue, collected, workerLines, finished, results>>
    /\ UNCHANGED notWorker

\* Sequential branch: job.log = log; job.run() is entered.
SeqStartJob ==
    /\ pc = "seq"
    /\ i <= Len(jobs)
    /\ jobLog' = [jobLog EXCEPT ![jobs[i]] = "signal"]
    /\ JobBegin(jobs[i])
    /\ pc' = "seq_run"
    /\ UNCHANGED <<requested, parallel, cpu_count, jobs, i, max_workers,
                   futures, queue, collected, workerLines, finished, results>>
    /\ UNCHANGED notWorker

\* As SeqJobReturn with a failed job ending the loop.
SeqJobReturnAbort ==
    /\ pc = "seq_run"
    /\ \E ok \in BOOLEAN :
         /\ JobEnd(jobs[i], ok)
         /\ pc' = IF ok THEN "seq" ELSE "emit"
    /\ i' = i + 1
    /\ UNCHANGED <<requested, parallel, cpu_count, jobs, max_workers, futures,
                   queue, collected, workerLines, finished, jobLog>>
    /\ UNCHANGED notWorker

\* Sequential branch: job.run() returns and the loop moves on.
SeqJobReturn ==
    /\ pc = "seq_run"
    /\ \E ok \in BOOLEAN : JobEnd(jobs[i], ok)
    /\ i' = i + 1
    /\ pc' = "seq"
    /\ UNCHANGED <<requested, parallel, cpu_count, jobs, max_workers, futures,
                   queue, collected, workerLines, finished, jobLog>>
    /\ UNCHANGED notWorker

\* Sequential branch: the loop is exhausted.
SeqDone ==
    /\ pc = "seq"
    /\ i > Len(jobs)
    /\ pc' = "emit"
    /\ UNCHANGED <<requested, parallel, cpu_count, jobs, i, max_workers,
                   futures, queue, collected, workerLines, finished, jobLog,
                   state, jobLines, results>>
    /\ UNCHANGED notWorker

\* As Submit without `job.log = log`: the job keeps the sink it was built with.
SubmitNoRebind ==
    /\ pc = "submit"
    /\ i <= Len(jobs)
    /\ futures' = Append(futures, jobs[i])
    /\ queue' = Append(queue, jobs[i])
    /\ i' = i + 1
    /\ UNCHANGED <<requested, parallel, cpu_count, jobs, pc, max_workers,
                   collected, workerLines, finished, jobLog, state, jobLines,
                   results>>
    /\ UNCHANGED notWorker

\* Concurrent branch: job.log = log; futures.append(ex.submit(job.run)).
Submit ==
    /\ pc = "submit"
    /\ i <= Len(jobs)
    /\ jobLog' = [jobLog EXCEPT ![jobs[i]] = "signal"]
    /\ futures' = Append(futures, jobs[i])
    /\ queue' = Append(queue, jobs[i])
    /\ i' = i + 1
    /\ UNCHANGED <<requested, parallel, cpu_count, jobs, pc, max_workers,
                   collected, workerLines, finished, state, jobLines, results>>
    /\ UNCHANGED notWorker

\* Concurrent branch: every job was submitted; as_completed(futures) starts.
SubmitDone ==
    /\ pc = "submit"
    /\ i > Len(jobs)
    /\ pc' = "collect"
    /\ UNCHANGED <<requested, parallel, cpu_count, jobs, i, max_workers,
                   futures, queue, collected, workerLines, finished, jobLog,
                   state, jobLines, results>>
    /\ UNCHANGED notWorker

\* ThreadPoolExecutor(max_workers): a pool thread is free while fewer than
\* max_workers work items are being run.
PoolHasFreeWorker == Cardinality(Running) < max_workers

\* As PoolStartJob with the work item left on the queue.
PoolStartJobKeepQueued ==
    /\ pc \in {"submit", "collect"}
    /\ queue # <<>>
    /\ PoolHasFreeWorker
    /\ JobBegin(Head(queue))
    /\ UNCHANGED <<requested, parallel, cpu_count, jobs, pc, i, max_workers,
                   futures, queue, collected, workerLines, finished, jobLog,
                   results>>
    /\ UNCHANGED notWorker

\* A pool thread takes the oldest queued work item and enters job.run.
PoolStartJob ==
    /\ pc \in {"submit", "collect"}
    /\ queue # <<>>
    /\ PoolHasFreeWorker
    /\ JobBegin(Head(queue))
    /\ queue' = Tail(queue)
    /\ UNCHANGED <<requested, parallel, cpu_count, jobs, pc, i, max_workers,
                   futures, collected, workerLines, finished, jobLog, results>>
    /\ UNCHANGED notWorker

\* A pool thread's job.run returns; the future holds its value.
PoolJobReturn(j) ==
    /\ pc \in {"submit", "collect"}
    /\ state[j] = "Running"
    /\ \E ok \in BOOLEAN : JobEnd(j, ok)
    /\ UNCHANGED <<requested, parallel, cpu_count, jobs, pc, i, max_workers,
                   futures, queue, collected, workerLines, finished, jobLog>>
    /\ UNCHANGED notWorker

\* for fut in as_completed(futures): fut.result() of a finished future.
Collect(j) ==
    /\ pc = "collect"
    /\ \E k \in 1..Len(futures) : futures[k] = j
    /\ j \notin collected
    /\ Terminal(j)
    /\ collected' = collected \cup {j}
    /\ UNCHANGED <<requested, parallel, cpu_count, jobs, pc, i, max_workers,
                   futures, queue, workerLines, finished, jobLog, state,
                   jobLines, results>>
    /\ UNCHANGED notWorker

\* As AllCollected with nothing awaited.
NoneAwaited == TRUE

\* as_completed is exhausted once every future was yielded; the with block
\* then leaves the executor (shutdown(wait=True)).
AllCollected == collected = {futures[k] : k \in 1..Len(futures)}

CollectDone ==
    /\ pc = "collect"
    /\ AllCollected
    /\ pc' = "emit"
    /\ UNCHANGED <<requested, parallel, cpu_count, jobs, i, max_workers,
                   futures, queue, collected, workerLines, finished, jobLog,
                   state, jobLines, results>>
    /\ UNCHANGED notWorker

\* self.finished_signal.emit(), the last statement of run.
Emit ==
    /\ pc = "emit"
    /\ finished' = finished + 1
    /\ pc' = "done"
    /\ UNCHANGED <<requested, parallel, cpu_count, jobs, i, max_workers,
                   futures, queue, collected, workerLines, jobLog, state,
                   jobLines, results>>
    /\ UNCHANGED notWorker

Next ==
    \/ RunBegin
    \/ SeqStartJob
    \/ SeqJobReturn
    \/ SeqDone
    \/ Submit
    \/ SubmitDone
    \/ PoolStartJob
    \/ \E j \in JobIds : PoolJobReturn(j)
    \/ \E j \in JobIds : Collect(j)
    \/ CollectDone
    \/ Emit

Spec == Init /\ [][Next]_vars

\* ---------------------------------------- a job.run that raises (the sink)
\* job.log is a plain attribute called outside the try block of
\* DownloadJob.run twice: for the start line, and for the error line inside
\* the except clause. When that call raises, job.run raises.
JobRaise(j) == state' = [state EXCEPT ![j] = "Raised"]

\* The executor's threads may run work items while run() is in the submit
\* loop, in as_completed, or leaving the with block (shutdown(wait=True)).
PoolActive == pc \in {"submit", "collect", "unwind"}

\* Sequential branch: job.log = log; job.run() raises at its start line. The
\* for loop and run() have no handler: run ends with the exception.
SeqStartRaises ==
    /\ pc = "seq"
    /\ i <= Len(jobs)
    /\ jobLog' = [jobLog EXCEPT ![jobs[i]] = "signal"]
    /\ JobRaise(jobs[i])
    /\ pc' = "raised"
    /\ UNCHANGED <<requested, parallel, cpu_count, jobs, i, max_workers,
                   futures, queue, collected, workerLines, finished, jobLines,
                   results>>
    /\ UNCHANGED notWorker

\* Sequential branch: the backend raised and the error line of the except
\* clause raises in turn; run ends with the exception.
SeqHandlerRaises ==
    /\ pc = "seq_run"
    /\ JobRaise(jobs[i])
    /\ pc' = "raised"
    /\ UNCHANGED <<requested, parallel, cpu_count, jobs, i, max_workers,
                   futures, queue, collected, workerLines, finished, jobLog,
                   jobLines, results>>
    /\ UNCHANGED notWorker

\* A pool thread takes the oldest work item; job.run raises at its start
\* line and the future holds the exception.
PoolStartRaises ==
    /\ PoolActive
    /\ queue # <<>>
    /\ PoolHasFreeWorker
    /\ JobRaise(Head(queue))
    /\ queue' = Tail(queue)
    /\ UNCHANGED <<requested, parallel, cpu_count, jobs, pc, i, max_workers,
                   futures, collected, workerLines, finished, jobLog, jobLines,
                   results>>
    /\ UNCHANGED notWorker

\* A pool thread's job.run raises from its except clause.
PoolHandlerRaises(j) ==
    /\ PoolActive
    /\ state[j] = "Running"
    /\ JobRaise(j)
    /\ UNCHANGED <<requested, parallel, cpu_count, jobs, pc, i, max_workers,
                   futures, queue, collected, workerLines, finished, jobLog,
                   jobLines, results>>
    /\ UNCHANGED notWorker

\* fut.result() of a future holding an exception: the except clause of run
\* calls log, which writes the line (sinkOk) or raises; a raise leaves the
\* with block.
CollectRaised(j) ==
    /\ pc = "collect"
    /\ \E k \in 1..Len(futures) : futures[k] = j
    /\ j \notin collected
    /\ state[j] = "Raised"
    /\ \E sinkOk \in BOOLEAN :
         IF sinkOk
         THEN /\ collected' = collected \cup {j}
              /\ workerLines' = Append(workerLines, "ERROR_job_raised")
              /\ pc' = pc
         ELSE /\ pc' = "unwind"
              /\ UNCHANGED <<collected, workerLines>>
    /\ UNCHANGED <<requested, parallel, cpu_count, jobs, i, max_workers,
                   futures, queue, finished, jobLog, state, jobLines, results>>
    /\ UNCHANGED notWorker

\* Leaving the with block: the executor still runs what was submitted.
UnwindStartJob ==
    /\ pc = "unwind"
    /\ queue # <<>>
    /\ PoolHasFreeWorker
    /\ JobBegin(Head(queue))
    /\ queue' = Tail(queue)
    /\ UNCHANGED <<requested, parallel, cpu_count, jobs, pc, i, max_workers,
                   futures, collected, workerLines, finished, jobLog, results>>
    /\ UNCHANGED notWorker

UnwindJobReturn(j) ==
    /\ pc = "unwind"
    /\ state[j] = "Running"
    /\ \E ok \in BOOLEAN : JobEnd(j, ok)
    /\ UNCHANGED <<requested, parallel, cpu_count, jobs, pc, i, max_workers,
                   futures, queue, collected, workerLines, finished, jobLog>>
    /\ UNCHANGED notWorker

\* shutdown(wait=True) is over: the exception leaves run().
UnwindDone ==
    /\ pc = "unwind"
    /\ queue = <<>>
    /\ Running = {}
    /\ pc' = "raised"
    /\ UNCHANGED <<requested, parallel, cpu_count, jobs, i, max_workers,
                   futures, queue, collected, workerLines, finished, jobLog,
                   state, jobLines, results>>
    /\ UNCHANGED notWorker

EscapeNext ==
    \/ Next
    \/ SeqStartRaises
    \/ SeqHandlerRaises
    \/ PoolStartRaises
    \/ \E j \in JobIds : PoolHandlerRaises(j)
    \/ \E j \in JobIds : CollectRaised(j)
    \/ UnwindStartJob
    \/ \E j \in JobIds : UnwindJobReturn(j)
    \/ UnwindDone

\* DownloadWorker.run with jobs whose log call may raise, over batches of at
\* most MaxEscape jobs and at most MaxEscape requested workers.
EscapeInit == Init /\ Len(jobs) <= MaxEscape /\ requested <= MaxEscape

SpecEscape == EscapeInit /\ [][EscapeNext]_vars

\* detect_external_downloader on its own, over its arguments and the files.
LocateInit ==
    /\ InitLocate /\ WorkerIdle /\ ExpandIdle /\ AfterIdle /\ OptsIdle
    /\ EnsureIdle /\ ProgressIdle /\ RestIdle

LocateNext == Detect /\ UNCHANGED notLocate

SpecLocate == LocateInit /\ [][LocateNext]_vars

\* _expand_playlist_urls on its own, over its arguments and the adapter.
ExpandInit ==
    /\ InitExpand /\ WorkerIdle /\ LocateIdle /\ AfterIdle /\ OptsIdle
    /\ EnsureIdle /\ ProgressIdle /\ FetchIdle /\ InitJobs /\ CaptureIdle
    /\ BatchIdle /\ StallIdle

ExpandNext ==
    \/ Expand /\ UNCHANGED notExpand
    \/ CreateJobs /\ UNCHANGED notJobs

SpecExpand == ExpandInit /\ [][ExpandNext]_vars

\* _after_download_process on its own, over info, the option and the disk.
AfterInit ==
    /\ InitAfter /\ WorkerIdle /\ LocateIdle /\ ExpandIdle /\ OptsIdle
    /\ EnsureIdle /\ ProgressIdle /\ RestIdle

AfterNext == AfterDownload /\ UNCHANGED notAfter

SpecAfter == AfterInit /\ [][AfterNext]_vars

\* start_download and the jobs' options, over the inputs and the files.
OptsInit ==
    /\ InitOpts /\ WorkerIdle /\ ExpandIdle /\ AfterIdle /\ EnsureIdle
    /\ ProgressIdle /\ FetchIdle /\ JobsIdle /\ BatchIdle /\ StallIdle

OptsNext ==
    \/ StartDownload /\ UNCHANGED notOpts
    \/ \E j \in 1..nurls : JobBuildOpts(j) /\ UNCHANGED notOpts
    \/ FilesChange /\ UNCHANGED notOpts

SpecOpts == OptsInit /\ [][OptsNext]_vars

\* ensure_aria2_on_windows called up to MaxCalls times.
EnsureInit ==
    /\ InitEnsure /\ WorkerIdle /\ ExpandIdle /\ AfterIdle /\ OptsIdle
    /\ ProgressIdle /\ RestIdle

EnsureNext == EnsureCall /\ UNCHANGED notEnsure

SpecEnsure == EnsureInit /\ [][EnsureNext]_vars

\* _progress_hook on its own, over the events.
ProgressInit ==
    /\ InitProgress /\ WorkerIdle /\ LocateIdle /\ ExpandIdle /\ AfterIdle
    /\ OptsIdle /\ EnsureIdle /\ RestIdle

ProgressNext == ProgressHook /\ UNCHANGED notProgress

SpecProgress == ProgressInit /\ [][ProgressNext]_vars

\* DownloadJob.run with a backend that raises or returns items.
FetchInit ==
    /\ InitFetch /\ WorkerIdle /\ LocateIdle /\ ExpandIdle /\ OptsIdle
    /\ EnsureIdle /\ ProgressIdle /\ JobsIdle /\ CaptureIdle
    /\ BatchIdle /\ StallIdle

FetchNext ==
    \/ RunStart /\ UNCHANGED notFetch
    \/ FetchReturn /\ UNCHANGED notFetch
    \/ ProcessItem /\ UNCHANGED notFetch
    \/ RunReturn /\ UNCHANGED notFetch

SpecFetch == FetchInit /\ [][FetchNext]_vars

\* DownloadWorker with one job, over the whole range of the parallel argument
\* and of os.cpu_count().
ClampInit ==
    /\ requested \in (0 - MaxBelow)..MaxRequested
    /\ parallel = CoerceParallel(requested)
    /\ cpu_count \in 0..MaxCpu
    /\ jobs = <<1>>
    /\ pc = "begin"
    /\ i = 0
    /\ max_workers = 0
    /\ futures = <<>>
    /\ queue = <<>>
    /\ collected = {}
    /\ workerLines = <<>>
    /\ finished = 0
    /\ jobLog = [j \in JobIds |-> "gui"]
    /\ state = [j \in JobIds |-> "Created"]
    /\ jobLines = [j \in JobIds |-> <<>>]
    /\ results = [j \in JobIds |-> <<>>]
    /\ LocateIdle /\ ExpandIdle /\ AfterIdle /\ OptsIdle /\ EnsureIdle
    /\ ProgressIdle /\ RestIdle

SpecClamp == ClampInit /\ [][Next]_vars

\* ------------------------------------------- MainWindow: the start button
\* As StartWorker without startBtn.setEnabled(False).
StartWorkerKeepEnabled(n, p, c) ==
    /\ started' = started + 1
    /\ startBtn' = startBtn
    /\ requested' = p
    /\ parallel' = CoerceParallel(p)
    /\ cpu_count' = c
    /\ jobs' = [k \in 1..n |-> k]
    /\ pc' = "begin"
    /\ i' = 0
    /\ max_workers' = 0
    /\ futures' = <<>>
    /\ queue' = <<>>
    /\ collected' = {}
    /\ workerLines' = <<>>
    /\ finished' = 0
    /\ jobLog' = [j \in 1..n |-> "gui"]
    /\ state' = [j \in 1..n |-> "Created"]
    /\ jobLines' = [j \in 1..n |-> <<>>]
    /\ results' = [j \in 1..n |-> <<>>]

\* start_download from line 540: the button is disabled, a DownloadWorker is
\* constructed over the n jobs, connected and started.
StartWorker(n, p, c) ==
    /\ started' = started + 1
    /\ startBtn' = FALSE
    /\ requested' = p
    /\ parallel' = CoerceParallel(p)
    /\ cpu_count' = c
    /\ jobs' = [k \in 1..n |-> k]
    /\ pc' = "begin"
    /\ i' = 0
    /\ max_workers' = 0
    /\ futures' = <<>>
    /\ queue' = <<>>
    /\ collected' = {}
    /\ workerLines' = <<>>
    /\ finished' = 0
    /\ jobLog' = [j \in 1..n |-> "gui"]
    /\ state' = [j \in 1..n |-> "Created"]
    /\ jobLines' = [j \in 1..n |-> <<>>]
    /\ results' = [j \in 1..n |-> <<>>]

\* startBtn.clicked, which an enabled button only emits, runs start_download:
\* with an empty url field it returns after the message box; otherwise it
\* builds at least one job and starts a worker.
StartClicked ==
    /\ startBtn
    /\ clicks < MaxClicks
    /\ clicks' = clicks + 1
    /\ \/ /\ UNCHANGED <<dvars, startBtn, started>>
       \/ \E n \in 1..MaxGuiJobs, p \in 1..2, c \in {0, 1} : StartWorker(n, p, c)
    /\ UNCHANGED handled
    /\ UNCHANGED notGui

\* on_finished, run for a finished_signal of the worker not yet handled.
OnFinished ==
    /\ finished = 1
    /\ handled < started
    /\ handled' = handled + 1
    /\ startBtn' = TRUE
    /\ UNCHANGED <<clicks, started>>
    /\ UNCHANGED dvars
    /\ UNCHANGED notGui

GuiNext ==
    \/ StartClicked
    \/ OnFinished
    \/ Next

\* The window from its construction: no worker, the button enabled.
GuiInit ==
    /\ WorkerIdle /\ LocateIdle /\ ExpandIdle /\ AfterIdle /\ OptsIdle
    /\ EnsureIdle /\ ProgressIdle /\ RestIdle

\* The worker thread runs, every backend call returns, and the event loop
\* delivers the queued finished_signal.
SpecGui ==
    GuiInit /\ [][GuiNext]_vars /\ WF_vars(Next) /\ WF_vars(OnFinished)

\* --------------------------------------------- a backend call that stalls
\* The return of a job other than the stalled one.
LiveJobReturn == \E j \in JobIds \ {stalled} : PoolJobReturn(j)

StallNext ==
    \/ RunBegin
    \/ Submit
    \/ SubmitDone
    \/ PoolStartJob
    \/ LiveJobReturn
    \/ \E j \in JobIds : Collect(j)
    \/ CollectDone
    \/ Emit

\* DownloadWorker in the concurrent branch, with at most one job whose
\* backend call never returns.
StallInit ==
    /\ requested \in 2..MaxStall
    /\ parallel = CoerceParallel(requested)
    /\ cpu_count \in CpuCounts
    /\ \E n \in 1..MaxStall : jobs = [k \in 1..n |-> k]
    /\ stalled \in 0..Len(jobs)
    /\ pc = "begin"
    /\ i = 0
    /\ max_workers = 0
    /\ futures = <<>>
    /\ queue = <<>>
    /\ collected = {}
    /\ workerLines = <<>>
    /\ finished = 0
    /\ jobLog = [j \in JobIds |-> "gui"]
    /\ state = [j \in JobIds |-> "Created"]
    /\ jobLines = [j \in JobIds |-> <<>>]
    /\ results = [j \in JobIds |-> <<>>]
    /\ LocateIdle /\ ExpandIdle /\ AfterIdle /\ OptsIdle /\ EnsureIdle
    /\ ProgressIdle /\ FetchIdle /\ JobsIdle /\ CaptureIdle /\ BatchIdle

\* The worker thread and the pool's threads run; every backend call but the
\* stalled one returns.
SpecStall == StallInit /\ [][StallNext]_vars /\ WF_vars(StallNext)

\* ------------------------------------------------------------------ claims
RECURSIVE SumLen(_, _)
SumLen(f, n) == IF n = 0 THEN 0 ELSE Len(f[n]) + SumLen(f, n - 1)

\* The number of outcomes the batch produced.
BatchLen == SumLen(results, Len(jobs))

ErrorCount(j) ==
    Cardinality({k \in 1..Len(jobLines[j]) : jobLines[j][k] = "ERROR"})

C2_FinishedOnceAfterAll ==
    /\ finished <= 1
    /\ finished = 1 => \A j \in JobIds : Terminal(j)
    /\ pc = "done" <=> finished = 1
    /\ pc # "done" => ENABLED Next

C2_Witness ==
    /\ pc = "done"
    /\ finished = 1
    /\ requested = 2
    /\ Len(jobs) = 3
    /\ state = <<"Succeeded", "Failed", "Succeeded">>

\* C3: a job whose backend raised has exactly the one outcome False and one
\* ERROR line; the run is never stuck because of it, and when the run has
\* ended every other job is terminal with its one outcome.
C3_FailureIsolated ==
    \A j \in JobIds :
        state[j] = "Failed" =>
            /\ results[j] = <<FALSE>>
            /\ ErrorCount(j) = 1
            /\ pc # "done" => ENABLED Next
            /\ pc = "done" =>
                \A k \in JobIds \ {j} : Terminal(k) /\ Len(results[k]) = 1

C3_Witness ==
    /\ pc = "done"
    /\ requested = 1
    /\ Len(jobs) = 3
    /\ state = <<"Failed", "Succeeded", "Failed">>
    /\ results = <<(<<FALSE>>), (<<TRUE>>), (<<FALSE>>)>>

\* C4: with requested parallelism <= 1 at most one job is running, and a job
\* has left Created only when every job before it is terminal.
C4_SequentialInOrder ==
    requested <= 1 =>
        /\ Cardinality(Running) <= 1
        /\ \A j \in JobIds :
              state[j] # "Created" => \A k \in 1..(j - 1) : Terminal(k)

C4_Witness ==
    /\ requested <= 1
    /\ Len(jobs) >= 3
    /\ Terminal(1)
    /\ state[2] = "Running"
    /\ state[3] = "Created"

\* C5: with requested parallelism > 1 the number of running jobs is at most
\* min(requested, max(4, cpu_count * 4), 64), cpu_count being 2 when unknown.
C5_RunningWithinClamp ==
    requested > 1 =>
        LET cpus == IF cpu_count = 0 THEN 2 ELSE cpu_count IN
        Cardinality(Running) <= Min(Min(requested, Max(4, cpus * 4)), 64)

C5_Witness ==
    /\ requested > 4
    /\ cpu_count = 1
    /\ Cardinality(Running) = 4
    /\ queue # <<>>

\* The candidate names of the call and their file names, in order.
CandNames == IF preferred.isNone THEN <<"aria2c", "axel">> ELSE preferred.names
Cand(k) == ExeName(CandNames[k], is_windows)
OnPathIdx == {k \in 1..Len(CandNames) : Cand(k) \in onPath}
FileInDirIdx == {k \in 1..Len(CandNames) : appDir[Cand(k)] = "file"}
MinOf(S) == CHOOSE x \in S : \A y \in S : x <= y

\* C6 as stated: with preferred = [aria2c, axel], aria2c only in the
\* application directory and axel on the search path, aria2c is returned.
C6_PerCandidateOrder ==
    ( /\ lpc = "returned"
      /\ CandNames = <<"aria2c", "axel">>
      /\ Cand(1) \notin onPath
      /\ appDir[Cand(1)] = "file"
      /\ Cand(2) \in onPath )
    => ext.file.base = "aria2c"

\* C6 as amended: every candidate is looked up on the search path first, in
\* the given order, and the first found there is returned; the application
\* directory is examined, in the given order, only when no candidate is on the
\* search path.
C6_PathBeforeAppDir ==
    lpc = "returned" =>
        /\ OnPathIdx # {} =>
              /\ ext.dir \in {"", "PATH"}
              /\ ext.file = Cand(MinOf(OnPathIdx))
        /\ (OnPathIdx = {} /\ ext # NoneExt) =>
              /\ ext.dir = "APPDIR"
              /\ \E k \in 1..Len(CandNames) :
                    /\ ext.file = Cand(k)
                    /\ appDir[Cand(k)] # "absent"
                    /\ \A m \in 1..(k - 1) : appDir[Cand(m)] # "file"
        /\ (OnPathIdx = {} /\ FileInDirIdx # {}) => ext # NoneExt

C6_Witness ==
    /\ lpc = "returned"
    /\ CandNames = <<"aria2c", "axel">>
    /\ Cand(1) \notin onPath
    /\ appDir[Cand(1)] = "file"
    /\ Cand(2) \in onPath
    /\ ext.file.base = "axel"

WarnCount ==
    Cardinality({k \in 1..Len(guiLines) : guiLines[k].tag = "[warn]"})

\* C7: when the adapter was called, raised nothing and returned no entries,
\* the expansion returns exactly <<url>>.
C7_NoEntriesGivesReference ==
    ( /\ epc # "ready"
      /\ ModuleFor(backend, ytd_mod, ytdl_mod) # "none"
      /\ ~adapter.raises
      /\ adapter.info.entries = <<>> )
    => (epc = "returned" /\ urls = <<url>>)

C7_Witness ==
    /\ epc = "returned"
    /\ ModuleFor(backend, ytd_mod, ytdl_mod) # "none"
    /\ ~adapter.raises
    /\ adapter.info.isDict
    /\ adapter.info.hasEntries
    /\ adapter.info.entries = <<>>
    /\ urls = <<url>>

\* C8: when the adapter raises, the expansion returns normally with exactly
\* <<url>> and has written exactly one "[warn]" line of its own (lines the
\* backend wrote through YSNLogger carry the tags of YSNLogger).
C8_RaiseGivesReferenceOneWarning ==
    ( /\ epc # "ready"
      /\ ModuleFor(backend, ytd_mod, ytdl_mod) # "none"
      /\ adapter.raises )
    => (epc = "returned" /\ urls = <<url>> /\ WarnCount = 1)

C8_Witness ==
    /\ epc = "returned"
    /\ ModuleFor(backend, ytd_mod, ytdl_mod) = "youtube_dl"
    /\ adapter.raises
    /\ adapter.logger = <<"error">>
    /\ urls = <<url>>
    /\ guiLines[Len(guiLines)].tag = "[warn]"

\* C9: when no candidate executable is on the search path or in the
\* application directory, None is returned.
C9_NoneWhenNoExecutable ==
    (lpc = "returned" /\ OnPathIdx = {} /\ FileInDirIdx = {}) => ext = NoneExt

\* C10: when no candidate is on the search path and a candidate executable is
\* in the application directory, the path of that file (of the first, in the
\* given order) in the application directory is returned.
C10_AppDirOnlyReturned ==
    (lpc = "returned" /\ OnPathIdx = {} /\ FileInDirIdx # {})
    => ext = [dir |-> "APPDIR", file |-> Cand(MinOf(FileInDirIdx))]

\* The lines of _after_download_process that carry a digest.
DigestLines ==
    {k \in 1..Len(afterLines) :
        afterLines[k].tag = "[hash]" /\ afterLines[k].digest # <<>>}

\* The path _after_download_process settles on exists on disk.
ResolvedExists ==
    /\ ~info_dict.empty
    /\ ResolveFilename(info_dict, disk) # Absent
    /\ ResolveFilename(info_dict, disk) \in disk

\* Every digest line names the resolved file and carries the digest of the
\* bytes of that file.
DigestIsOfFile ==
    \A k \in DigestLines :
        /\ afterLines[k].path = ResolveFilename(info_dict, disk)
        /\ afterLines[k].digest =
               Digest(FileBytes(afterLines[k].path, content))

\* C11 as stated: after _after_download_process has returned, a hash line
\* with a digest was written if and only if compute_hash is set and the
\* resolved path exists on disk, and its digest is that of the file's bytes.
C11_HashLineIffOptionAndFile ==
    apc = "returned" =>
        /\ (DigestLines # {}) <=> (compute_hash /\ ResolvedExists)
        /\ DigestIsOfFile

\* C11 amended: after _after_download_process has returned, a hash line with
\* a digest was written if and only if compute_hash is set, the resolved path
\* exists on disk and reading the file did not fail; its digest is that of
\* the file's bytes, and there is exactly one such line.
C11_HashLineIffOptionFileAndRead ==
    apc = "returned" =>
        /\ (DigestLines # {}) <=> (compute_hash /\ ResolvedExists /\ ~readFails)
        /\ Cardinality(DigestLines) <= 1
        /\ DigestIsOfFile

\* A digest line for a file read in more than one chunk, found by the guess.
C11_Witness ==
    /\ apc = "returned"
    /\ DigestLines # {}
    /\ Len(content) + 1 > ChunkLen
    /\ StructuredFilename(info_dict) = Absent

\* C12: DownloadWorker.run never ends with an exception reaching its caller,
\* and when it has ended the completion signal was emitted, whatever a job
\* does, a raise outside the try block of DownloadJob.run included.
C12_RunEndsWithSignal ==
    /\ pc # "raised"
    /\ pc = "done" => finished = 1

\* The jobs that have handed their options to the backend.
BuiltJobs == {j \in 1..Len(ydl_opts) : ydl_opts[j].built}

\* C13: every job is configured with the accelerator value start_download
\* detected and logged before dispatch (one resolution per run, none per
\* job), also when the files change during the batch and when the helper
\* module is missing and start_download used its own search-path fallback.
C13_JobsUseDetectedAccelerator ==
    \A j \in BuiltJobs : ydl_opts[j].external_downloader = detected

\* The argument profile of a candidate.
ProfileOf(base) ==
    IF base = "aria2c" THEN Aria2Args
    ELSE IF base = "axel" THEN AxelArgs
    ELSE <<>>

\* C14: the arguments a job gives the backend are the profile of the matched
\* candidate, aria2c or axel, for every value the locator returns, a bare
\* name as much as a full path; without accelerator there are no arguments.
C14_ArgsKeyedByCandidate ==
    \A j \in BuiltJobs :
        ydl_opts[j].external_downloader_args =
            ProfileOf(ydl_opts[j].external_downloader.file.base)

\* C15: for every job of either backend, the options given to the backend
\* hold the accelerator's path and arguments if and only if an accelerator
\* was located.
C15_AcceleratorKeysIffLocated ==
    \A j \in BuiltJobs :
        (/\ ydl_opts[j].external_downloader # NoneExt
         /\ ydl_opts[j].external_downloader_args # <<>>)
        <=> detected # NoneExt

\* C16: the fragment count and the chunk size given to the backend are those
\* of the job's option set.
C16_PerfFromJobOptions ==
    \A j \in BuiltJobs :
        /\ ydl_opts[j].concurrent_fragments = job_opts[j].concurrent_fragments
        /\ ydl_opts[j].http_chunk_size = job_opts[j].http_chunk_size

\* How often job j entered run(), where the backend fetch is called.
StartCount(j) ==
    Cardinality({k \in 1..Len(jobLines[j]) : jobLines[j][k] = "start"})

\* C17: a job goes Created -> Running -> Succeeded or Failed and no other
\* way: a terminal state is never left, a job reaches one of the two at most
\* once, and its backend fetch is entered at most once.
C17_JobStateMachine ==
    /\ [][\A j \in JobIds :
            /\ state[j] = "Created" => state'[j] \in {"Created", "Running"}
            /\ state[j] = "Running" =>
                   state'[j] \in {"Running", "Succeeded", "Failed"}
            /\ state[j] = "Succeeded" => state'[j] = "Succeeded"
            /\ state[j] = "Failed" => state'[j] = "Failed"]_vars
    /\ [](\A j \in JobIds :
            /\ state[j] \in {"Created", "Running", "Succeeded", "Failed"}
            /\ StartCount(j) <= 1
            /\ Len(results[j]) <= 1
            /\ StartCount(j) = 1 <=> state[j] # "Created"
            /\ Len(results[j]) = 1 <=> Terminal(j))

\* A concurrent batch is over with a job in each terminal state.
C17_Witness ==
    /\ pc = "done"
    /\ ~Sequential(parallel)
    /\ \E j \in JobIds : state[j] = "Succeeded"
    /\ \E j \in JobIds : state[j] = "Failed"

\* C18: when the binary is already next to the application on Windows,
\* ensure_aria2_on_windows returns its path and does nothing else: no query,
\* download or extraction, nothing created, whatever else holds (requests
\* imported or not); a second call gives the same.
C18_PresentBinaryIsNoOp ==
    \A k \in 1..Len(ensCalls) :
        (is_windows /\ ensCalls[k].before = "file") =>
            /\ ensCalls[k].out.value = "final_path"
            /\ ensCalls[k].out.effects = {}
            /\ ensCalls[k].out.scratch = {}
            /\ ~ensCalls[k].out.installed

\* C19: no call of ensure_aria2_on_windows raises; a call in which a step
\* of the download fails returns None; and after every call nothing of the
\* scratch files and directories it created is left.
C19_FailsCleanly ==
    \A k \in 1..Len(ensCalls) :
        /\ ~ensCalls[k].out.raised
        /\ ("query" \in ensCalls[k].out.effects /\ ensCalls[k].failAt # "none")
               => ensCalls[k].out.value = "None"
        /\ ensCalls[k].out.scratch = {}

\* The total size of the event is known: total_bytes or the estimate is there
\* and not zero.
TotalKnown ==
    \/ event.total_bytes > 0
    \/ event.total_bytes_estimate > 0

\* C20: for a 'downloading' event _progress_hook writes one line, which
\* carries a percentage whenever the total size is known, whatever the byte
\* count from 0 on, and the raw byte counter only when it is not known.
C20_PercentWheneverTotalKnown ==
    (gpc = "returned" /\ event.status = "downloading") =>
        /\ Len(progressLines) = 1
        /\ progressLines[1].kind = "percent" <=> TotalKnown
        /\ progressLines[1].kind = "bytes" <=> ~TotalKnown

\* The lines of item k with a given tag.
TagCount(k, tag) ==
    Cardinality({n \in 1..Len(itemLines[k]) : itemLines[k][n].tag = tag})

\* Item k came back from the fetch with no path that resolves: no
\* '_filename', and the guess is not made or is not on disk.
Unresolved(k) ==
    LET inf == fetch.items[k].info IN
    /\ ~inf.empty
    /\ inf.filename = Absent
    /\ inf.requested = NoList
    /\ \/ inf.title = Absent
       \/ GuessPath(inf.title, inf.id, "mp4") \notin disk

\* C21: when run() has returned after a fetch that did not raise, every item
\* (non-empty info dict) whose path could not be resolved has exactly one
\* warning and nothing else, and run() returned True.
C21_UnresolvedWarnsOnceAndSucceeds ==
    (fpc = "returned" /\ ~fetch.raises) =>
        /\ outcome = "True"
        /\ \A k \in 1..Len(fetch.items) :
             Unresolved(k) =>
                 /\ TagCount(k, "[warn]") = 1
                 /\ Len(itemLines[k]) = 1

\* A job of two entries, the second without resolvable path, has returned.
C21_Witness ==
    /\ fpc = "returned"
    /\ outcome = "True"
    /\ fetch.hasEntries
    /\ Len(fetch.items) >= 2
    /\ Unresolved(2)
    /\ TagCount(2, "[warn]") = 1

\* C22: when run() has returned after a fetch that did not raise, it returned
\* True; every item whose digest could not be computed has exactly one
\* '[hash] failed' line; and every item of the job was post-processed, those
\* after a failed digest included.
C22_DigestFailureLoggedJobSucceeds ==
    (fpc = "returned" /\ ~fetch.raises) =>
        /\ outcome = "True"
        /\ fidx = Len(fetch.items) + 1
        /\ \A k \in 1..Len(fetch.items) :
             /\ DigestFails(fetch.items[k], compute_hash, disk) =>
                    /\ Len(itemLines[k]) = 1
                    /\ itemLines[k][1].tag = "[hash]"
                    /\ itemLines[k][1].text = "failed"
             /\ (~fetch.items[k].info.empty /\ ~Unresolved(k)
                 /\ compute_hash /\ ~fetch.items[k].fails
                 /\ ResolveFilename(fetch.items[k].info, disk) \in disk) =>
                    (Len(itemLines[k]) = 1 /\ itemLines[k][1].text = "SHA256")

\* The digest of the first entry failed and the second entry has its digest.
C22_Witness ==
    /\ fpc = "returned"
    /\ outcome = "True"
    /\ Len(fetch.items) >= 2
    /\ DigestFails(fetch.items[1], compute_hash, disk)
    /\ Len(itemLines[1]) = 1
    /\ Len(itemLines[2]) = 1
    /\ itemLines[2][1].text = "SHA256"

\* The entries of the adapter's result that have a non-empty URL or a
\* non-empty identifier, by position.
WithRef ==
    {k \in 1..Len(adapter.info.entries) :
        \/ adapter.info.entries[k].url \notin {Absent, ""}
        \/ adapter.info.entries[k].id \notin {Absent, ""}}

\* The reference of entry k: its URL when non-empty, else its identifier.
RefOf(k) ==
    IF adapter.info.entries[k].url \notin {Absent, ""}
    THEN adapter.info.entries[k].url
    ELSE adapter.info.entries[k].id

\* urls is the references of the entries of WithRef, in entry order.
UrlsAreRefsInOrder ==
    /\ Len(urls) = Cardinality(WithRef)
    /\ \A k \in WithRef :
         urls[Cardinality({m \in WithRef : m <= k})] = RefOf(k)

CountLogged ==
    /\ guiLines # <<>>
    /\ guiLines[Len(guiLines)] = Line("[info]", "Found entries", Len(urls))

ExpandedEntries ==
    /\ epc = "returned"
    /\ ModuleFor(backend, ytd_mod, ytdl_mod) # "none"
    /\ ~adapter.raises
    /\ adapter.info.isDict
    /\ adapter.info.hasEntries
    /\ adapter.info.entries # <<>>

\* C23 as stated: whenever the adapter returned a non-empty list of entries,
\* the result is one reference per entry with a URL or an identifier, in entry
\* order, and the last line logged is the count of the result.
C23_RefsPerEntryAndCount ==
    ExpandedEntries => (UrlsAreRefsInOrder /\ CountLogged)

\* C23 as amended: that holds when at least one entry has a URL or an
\* identifier; when none has, the result is <<url>> and no count is logged.
C23_RefsPerEntryWhenAnyHasRef ==
    ExpandedEntries =>
        IF WithRef # {}
        THEN UrlsAreRefsInOrder /\ CountLogged
        ELSE /\ urls = <<url>>
             /\ \A n \in 1..Len(guiLines) : guiLines[n].text # "Found entries"

\* Two entries, the first with a URL and an identifier, the second with an
\* identifier only and an empty URL.
C23_Witness ==
    /\ ExpandedEntries
    /\ Len(adapter.info.entries) = 2
    /\ adapter.info.entries[1].url = "U1"
    /\ adapter.info.entries[1].id = "I1"
    /\ adapter.info.entries[2].url = ""
    /\ adapter.info.entries[2].id = "I2"
    /\ urls = <<"U1", "I2">>
    /\ CountLogged

\* C28: the expansion, once returned, has at least one reference whatever the
\* module, the adapter and the entries were; and the jobs start_download
\* built are at least one, one per reference, in the order of the references.
C28_AtLeastOneJobPerReference ==
    /\ epc = "returned" => Len(urls) >= 1
    /\ jpc = "created" =>
         /\ Len(job_urls) >= 1
         /\ Len(job_urls) = Len(urls)
         /\ \A k \in 1..Len(urls) : job_urls[k] = urls[k]

\* Two entries gave two different references and two jobs were built for
\* them, in that order.
C28_Witness ==
    /\ jpc = "created"
    /\ ExpandedEntries
    /\ Len(adapter.info.entries) = 2
    /\ WithRef = {1, 2}
    /\ urls[1] # urls[2]
    /\ job_urls = urls

\* The entries all lack URL and identifier and one job was built.
C28_WitnessNoRefs ==
    /\ jpc = "created"
    /\ ExpandedEntries
    /\ WithRef = {}
    /\ Len(job_urls) = 1

\* run() took the concurrent branch.
ConcurrentMode == pc \in {"submit", "collect"} \/ (pc \in {"emit", "done"} /\ max_workers # 0)

\* run() took the sequential branch.
SequentialMode == pc \in {"seq", "seq_run"} \/ (pc \in {"emit", "done"} /\ max_workers = 0)

\* C29: self.parallel is at least 1; a parallel argument below 1 gives
\* self.parallel = 1 and the sequential branch; the concurrent branch is taken
\* exactly for an argument of 2 or more, and its max_workers is between 2 and
\* 64 and not above the argument, whatever os.cpu_count() returned.
C29_WorkerCountBounds ==
    /\ parallel >= 1
    /\ requested < 1 => (parallel = 1 /\ ~ConcurrentMode)
    /\ (requested < 1 /\ pc # "begin") => SequentialMode
    /\ (requested >= 2 /\ pc # "begin") => ConcurrentMode
    /\ ConcurrentMode =>
         /\ requested >= 2
         /\ max_workers >= 2
         /\ max_workers <= 64
         /\ max_workers <= requested

\* More than 64 workers were asked for on a machine whose cpu count allows
\* more than 64, and the pool has 64.
C29_Witness ==
    /\ ConcurrentMode
    /\ requested > 64
    /\ CpuCount(cpu_count) * CpuMultiplier > 64
    /\ max_workers = 64

\* A negative argument ran the job sequentially.
C29_WitnessBelow ==
    /\ requested < 0
    /\ pc = "done"
    /\ parallel = 1
    /\ state[1] \in {"Succeeded", "Failed"}

\* C25: every step in which a job writes a line or changes state leaves that
\* job with the sink that emits log_signal: the sink was rebound before the
\* job's first line; and it is never bound back.
C25_JobLinesThroughSignal ==
    [][\A j \in JobIds :
          /\ (jobLines'[j] # jobLines[j] \/ state'[j] # state[j]) =>
                 (jobLog'[j] = "signal")
          /\ jobLog[j] = "signal" => jobLog'[j] = "signal"]_vars

\* In the pool, one job has written its start and end lines and another its
\* start line, both through the signal, while a third is not yet rebound.
C25_Witness ==
    /\ pc = "submit"
    /\ Len(jobs) >= 3
    /\ jobLines[1] # <<>> /\ Terminal(1) /\ jobLog[1] = "signal"
    /\ state[2] = "Running" /\ jobLog[2] = "signal"
    /\ jobLog[3] = "gui" /\ jobLines[3] = <<>>

\* C26: the step that creates the jobs leaves `opts` as the dict literal built
\* from the check boxes and gives every job an object of its own, other than
\* `opts`; and every later step (a job building its backend options, a file
\* appearing or vanishing) leaves every option object, every job's reference
\* and `opts` as they were.
C26_OptionSetsNeverMutated ==
    [][/\ (opc = "ready" /\ opc' = "running") =>
            /\ heap'[1] = BaseOpts(checks)
            /\ \A j \in 1..nurls : job_ref'[j] # 1
            /\ \A j, k \in 1..nurls : j # k => job_ref'[j] # job_ref'[k]
       /\ opc = "running" =>
            (heap' = heap /\ job_ref' = job_ref /\ job_opts' = job_opts)]_vars

\* Two jobs were created with the hash option set, both have built their
\* backend options, and `opts` has no performance key.
C26_Witness ==
    /\ opc = "running"
    /\ nurls >= 2
    /\ checks.hash
    /\ \A j \in 1..nurls : ydl_opts[j].built
    /\ heap[1] = BaseOpts(checks)
    /\ heap[job_ref[2]].compute_hash
    /\ heap[job_ref[2]].concurrent_fragments = fragSpin
    /\ "concurrent_fragments" \notin DOMAIN heap[1]

\* The workers started whose completion was not handled yet.
InFlight == started - handled

\* C27: never more than one worker is in flight; the start button is disabled
\* exactly while one is, from worker.start() until on_finished; no worker is
\* at work while the button is enabled; and, every job terminating, a
\* disabled button is enabled again.
C27_OneBatchInFlight ==
    /\ [](/\ InFlight \in {0, 1}
          /\ startBtn <=> InFlight = 0
          /\ startBtn => pc \in {"idle", "done"})
    /\ (~startBtn ~> startBtn)

\* A second batch runs in the pool after the first was finished and handled.
C27_Witness ==
    /\ started = 2
    /\ handled = 1
    /\ ~startBtn
    /\ pc = "collect"
    /\ Running # {}

\* Some job other than the stalled one.
Others == JobIds \ {stalled}

\* C24: with a pool of two or more workers and a job whose backend call never
\* returns, that job is one of at most max_workers running jobs, no job is
\* Failed but by its own backend's failure (one False, one ERROR line of its
\* own; the stalled job is never Failed), finished_signal is not emitted
\* while the job is stalled, and every other job ends Succeeded or Failed.
C24_StalledJobHoldsOneSlot ==
    /\ [](stalled # 0 =>
            /\ pc \notin {"begin"} => (max_workers >= 2 /\ Cardinality(Running) <= max_workers)
            /\ state[stalled] \in {"Created", "Running"}
            /\ \A j \in JobIds :
                 state[j] = "Failed" =>
                     (j # stalled /\ results[j] = <<FALSE>> /\ ErrorCount(j) = 1)
            /\ finished = 0
            /\ pc \notin {"emit", "done"})
    /\ <>(\A j \in Others : Terminal(j))

\* Three jobs on two workers: the first is stalled and running, the other two
\* have succeeded and were collected, and the run waits in as_completed.
C24_Witness ==
    /\ stalled = 1
    /\ Len(jobs) = 3
    /\ max_workers = 2
    /\ state = <<"Running", "Succeeded", "Succeeded">>
    /\ collected = {2, 3}
    /\ pc = "collect"
    /\ finished = 0

====
